---------------------------- MODULE Spec2Model ----------------------------
(***************************************************************************)
(* aurabot: the bonding-curve account decoder (BondingCurveState) and the  *)
(* fetch-with-retry launch handler (on_new_token) of src/main.py, driven   *)
(* by the listener that main() starts.                                     *)
(*                                                                         *)
(* Bytes are naturals 0..255, byte strings are sequences of bytes.         *)
(* Error messages are sequences of words, so that Python's substring test  *)
(* `pattern in error_str` is a computed containment test.                  *)
(***************************************************************************)
EXTENDS Integers, Sequences, FiniteSets, TLC

(***************************************************************************)
(* Bounds of the model.                                                    *)
(***************************************************************************)
NumInvocations == 2
MaxEvents == 2
MaxPayloadLen == 152

(***************************************************************************)
(* Program constants.                                                      *)
(***************************************************************************)
\* struct.pack("<Q", 6966180631402821399) = 17 b7 f8 37 60 d8 ac 60
BONDING_CURVE_DISCRIMINATOR == <<23, 183, 248, 55, 96, 216, 172, 96>>
DiscriminatorLen == 8
LayoutThreshold == 150
max_retries == 5
\* retry_delay = 1.5 seconds, in tenths of a second
retry_delay == 15

Min(a, b) == IF a < b THEN a ELSE b

(***************************************************************************)
(* Python slices data[:n] and data[n:] (both total: they clamp).           *)
(***************************************************************************)
Take(data, n) == SubSeq(data, 1, Min(n, Len(data)))
Drop(data, n) == SubSeq(data, n + 1, Len(data))

(***************************************************************************)
(* construct field parsers. Each consumes a fixed number of bytes.         *)
(* Int64ul: unsigned little-endian integer, by Horner's rule from the most *)
(* significant byte down.                                                  *)
(***************************************************************************)
RECURSIVE Int64ul(_)
Int64ul(b) == IF Len(b) = 0 THEN 0 ELSE b[1] + 256 * Int64ul(Tail(b))

Flag(b) == b[1] # 0

FieldSize(type) ==
    CASE type = "Int64ul" -> 8
      [] type = "Flag" -> 1
      [] type = "Bytes32" -> 32

FieldValue(type, b) ==
    CASE type = "Int64ul" -> [int |-> Int64ul(b)]
      [] type = "Flag" -> [flag |-> Flag(b)]
      [] type = "Bytes32" -> [bytes |-> b]

_STRUCT_V1 ==
    << <<"virtual_token_reserves", "Int64ul">>,
       <<"virtual_sol_reserves", "Int64ul">>,
       <<"real_token_reserves", "Int64ul">>,
       <<"real_sol_reserves", "Int64ul">>,
       <<"token_total_supply", "Int64ul">>,
       <<"complete", "Flag">> >>

\* variant: the `complete` flag is missing, the creator is read a byte early
_STRUCT_V2_NoFlag ==
    << <<"virtual_token_reserves", "Int64ul">>,
       <<"virtual_sol_reserves", "Int64ul">>,
       <<"real_token_reserves", "Int64ul">>,
       <<"real_sol_reserves", "Int64ul">>,
       <<"token_total_supply", "Int64ul">>,
       <<"creator", "Bytes32">> >>

_STRUCT_V2 ==
    << <<"virtual_token_reserves", "Int64ul">>,
       <<"virtual_sol_reserves", "Int64ul">>,
       <<"real_token_reserves", "Int64ul">>,
       <<"real_sol_reserves", "Int64ul">>,
       <<"token_total_supply", "Int64ul">>,
       <<"complete", "Flag">>,
       <<"creator", "Bytes32">> >>

EmptyDict == [n \in {} |-> 0]

(***************************************************************************)
(* Struct.parse: reads the fields in declared order from the stream; a     *)
(* field that needs more bytes than remain raises StreamError. Bytes after *)
(* the last field are left unread.                                         *)
(***************************************************************************)
\* variant: a lenient parser that reads missing bytes as zeros
RECURSIVE StructParse_ZeroPad(_, _, _)
StructParse_ZeroPad(layout, stream, acc) ==
    IF Len(layout) = 0
    THEN [ok |-> TRUE, dict |-> acc]
    ELSE LET name == layout[1][1]
             type == layout[1][2]
             size == FieldSize(type)
             padded == IF Len(stream) < size
                       THEN stream \o [k \in 1..(size - Len(stream)) |-> 0]
                       ELSE stream
         IN  StructParse_ZeroPad(Tail(layout), Drop(padded, size),
                                 [n \in DOMAIN acc \cup {name} |->
                                     IF n = name
                                     THEN FieldValue(type, Take(padded, size))
                                     ELSE acc[n]])

RECURSIVE StructParse(_, _, _)
StructParse(layout, stream, acc) ==
    IF Len(layout) = 0
    THEN [ok |-> TRUE, dict |-> acc]
    ELSE LET name == layout[1][1]
             type == layout[1][2]
             size == FieldSize(type)
         IN  IF Len(stream) < size
             THEN [ok |-> FALSE, dict |-> EmptyDict]
             ELSE StructParse(Tail(layout), Drop(stream, size),
                              [n \in DOMAIN acc \cup {name} |->
                                  IF n = name
                                  THEN FieldValue(type, Take(stream, size))
                                  ELSE acc[n]])

\* Pubkey.from_bytes: relabels 32 raw bytes as a public key
PubkeyFromBytes(b) == [pubkey |-> b]


(***************************************************************************)
(* Exceptions: a type and a message (a sequence of words).                 *)
(***************************************************************************)
NoError == [type |-> "none", msg |-> <<>>]
ValueError(msg) == [type |-> "ValueError", msg |-> msg]
StreamError == [type |-> "StreamError", msg |-> <<"stream", "read", "less", "than", "specified", "amount">>]

\* variant: the decoder's message is one the retry condition matches
InvalidDiscriminatorMsg_Retryable == <<"Invalid", "bonding", "curve", "state", "discriminator">>

InvalidDiscriminatorMsg == <<"Invalid", "curve", "state", "discriminator">>

(***************************************************************************)
(* BondingCurveState.__init__(data). The result is the exception raised    *)
(* (NoError when the object is constructed), the layout that was selected  *)
(* ("none" when the constructor left before the selection) and the         *)
(* attributes set on the object.                                           *)
(***************************************************************************)
\* variant: the length check is >=
SelectV2_AtLeast(data) == Len(data) >= LayoutThreshold

SelectV2(data) == Len(data) > LayoutThreshold

\* variant: the discriminator is compared after the layout was parsed
BondingCurveState_LateCheck(data) ==
    LET v2 == SelectV2(data)
        parsed == IF v2
                  THEN StructParse(_STRUCT_V2, Drop(data, DiscriminatorLen), EmptyDict)
                  ELSE StructParse(_STRUCT_V1, Drop(data, DiscriminatorLen), EmptyDict)
        layout == IF v2 THEN "V2" ELSE "V1"
    IN  IF ~parsed.ok
        THEN [error |-> StreamError, layout |-> layout, dict |-> EmptyDict]
        ELSE IF Take(data, DiscriminatorLen) # BONDING_CURVE_DISCRIMINATOR
        THEN [error |-> ValueError(InvalidDiscriminatorMsg), layout |-> layout,
              dict |-> EmptyDict]
        ELSE [error |-> NoError, layout |-> layout,
              dict |-> [n \in DOMAIN parsed.dict |->
                          IF n = "creator" /\ "bytes" \in DOMAIN parsed.dict[n]
                          THEN PubkeyFromBytes(parsed.dict[n].bytes)
                          ELSE parsed.dict[n]]]

BondingCurveState(data) ==
    IF Take(data, DiscriminatorLen) # BONDING_CURVE_DISCRIMINATOR
    THEN [error |-> ValueError(InvalidDiscriminatorMsg), layout |-> "none", dict |-> EmptyDict]
    ELSE LET v2 == SelectV2(data)
             parsed == IF v2
                       THEN StructParse(_STRUCT_V2, Drop(data, DiscriminatorLen), EmptyDict)
                       ELSE StructParse(_STRUCT_V1, Drop(data, DiscriminatorLen), EmptyDict)
             layout == IF v2 THEN "V2" ELSE "V1"
         IN  IF ~parsed.ok
             THEN [error |-> StreamError, layout |-> layout, dict |-> EmptyDict]
             ELSE [error |-> NoError, layout |-> layout,
                   dict |-> [n \in DOMAIN parsed.dict |->
                               IF n = "creator" /\ "bytes" \in DOMAIN parsed.dict[n]
                               THEN PubkeyFromBytes(parsed.dict[n].bytes)
                               ELSE parsed.dict[n]]]


(***************************************************************************)
(* Python's `pattern in error_str`: the pattern occurs contiguously.       *)
(***************************************************************************)
Contains(msg, pattern) ==
    \E k \in 0..(Len(msg) - Len(pattern)) :
        SubSeq(msg, k + 1, k + Len(pattern)) = pattern

AccountNotFoundPattern == <<"Account", "not", "found">>
InvalidStatePattern == <<"Invalid", "bonding", "curve", "state">>

\* variant: every ValueError is retried while attempts remain
ShouldRetry_AnyValueError(error_str, att) == att < max_retries - 1

\* variant: the attempt bound is off by one
ShouldRetry_OffByOne(error_str, att) ==
    /\ Contains(error_str, AccountNotFoundPattern) \/ Contains(error_str, InvalidStatePattern)
    /\ att < max_retries

\* variant: the attempt bound is missing from the condition
ShouldRetry_NoBound(error_str, att) ==
    Contains(error_str, AccountNotFoundPattern) \/ Contains(error_str, InvalidStatePattern)

\* the condition of the `if` in the `except ValueError` clause
ShouldRetry(error_str, att) ==
    /\ Contains(error_str, AccountNotFoundPattern) \/ Contains(error_str, InvalidStatePattern)
    /\ att < max_retries - 1

\* variant: the handler names the errors it expects and misses the
\* parser's
HandlerCatches_NotStreamError(exc) == exc.type \notin {"none", "StreamError"}

\* variant: the handler's clause is `except ValueError`
HandlerCatches_ValueErrorOnly(exc) == exc.type = "ValueError"

\* `except Exception` of the handler: every exception type of the model is
\* a subclass of Exception
HandlerCatches(exc) == exc.type # "none"

(***************************************************************************)
(* Inputs: launch events.                                                  *)
(***************************************************************************)
Mints == {"mintA", "mintB"}
derive_pool_address(mint) == IF mint = "mintA" THEN "curveA" ELSE "curveB"
ReportedCurves == {"curveA", "curveX"}
LaunchEvents == [mint : Mints, bonding_curve : ReportedCurves, symbol : {"TKN"}]
NoEvent == [mint |-> "none", bonding_curve |-> "none", symbol |-> "none"]

\* outcomes of create_for_platform / derive_pool_address
DeriveErrors ==
    { NoError,
      ValueError(<<"Account", "not", "found">>),
      [type |-> "KeyError", msg |-> <<"platform">>] }

(***************************************************************************)
(* Inputs: account payloads. An image is discriminator, the six fixed      *)
(* fields, a 32-byte creator and zero padding; a payload is a prefix of an *)
(* image, possibly with one discriminator byte changed.                    *)
(***************************************************************************)
RECURSIVE ToLE(_, _)
ToLE(n, k) == IF k = 0 THEN <<>> ELSE <<n % 256>> \o ToLE(n \div 256, k - 1)

Records ==
    { [vtr |-> 1000000000, vsr |-> 30000, rtr |-> 800000000, rsr |-> 25000,
       supply |-> 1000000000, complete |-> 0],
      [vtr |-> 0, vsr |-> 30000, rtr |-> 0, rsr |-> 0, supply |-> 1000, complete |-> 2] }

CreatorBytes == [k \in 1..32 |-> 100 + k]

Image(r) ==
    LET head == BONDING_CURVE_DISCRIMINATOR \o ToLE(r.vtr, 8) \o ToLE(r.vsr, 8)
                  \o ToLE(r.rtr, 8) \o ToLE(r.rsr, 8) \o ToLE(r.supply, 8)
                  \o <<r.complete>> \o CreatorBytes
    IN  head \o [k \in 1..(MaxPayloadLen - Len(head)) |-> 0]

\* byte position to change in the discriminator (0: none)
Corruptions == {0, 1, DiscriminatorLen}

Corrupt(data, pos) ==
    IF pos = 0 \/ pos > Len(data) THEN data
    ELSE [data EXCEPT ![pos] = (data[pos] + 1) % 256]

V1Len == DiscriminatorLen + 41
V2Len == V1Len + 32

PayloadLens ==
    { 0, 1, DiscriminatorLen - 1, DiscriminatorLen, V1Len - 1, V1Len, V2Len,
      LayoutThreshold - 1, LayoutThreshold, LayoutThreshold + 1, MaxPayloadLen }

Payloads ==
    { Corrupt(Take(Image(r), n), c) : r \in Records, n \in PayloadLens, c \in Corruptions }

(***************************************************************************)
(* Inputs: what one get_account_info call does. It returns a response      *)
(* (value absent, or value with data) or raises.                           *)
(***************************************************************************)
ReadErrors ==
    { ValueError(<<"Account", "not", "found">>),
      ValueError(<<"Invalid", "bonding", "curve", "state">>),
      ValueError(<<"Account", "curveA", "not", "found">>),
      ValueError(<<"account", "not", "found">>),
      [type |-> "RPCException", msg |-> <<"Account", "not", "found">>],
      [type |-> "ConnectError", msg |-> <<"All", "connection", "attempts", "failed">>] }

NoResponse == [kind |-> "none", has_value |-> FALSE, data |-> <<>>, error |-> NoError]

ReadOutcomes ==
    { [kind |-> "response", has_value |-> FALSE, data |-> <<>>, error |-> NoError] }
    \cup { [kind |-> "response", has_value |-> TRUE, data |-> p, error |-> NoError] : p \in Payloads }
    \cup { [kind |-> "raise", has_value |-> FALSE, data |-> <<>>, error |-> e] : e \in ReadErrors }


(***************************************************************************)
(* One outcome of each class, for the specifications that are checked for  *)
(* progress or with interleaved invocations: no value, a payload that      *)
(* decodes, a wrong discriminator, a truncated payload, a retried error, a *)
(* transport error.                                                        *)
(***************************************************************************)
CorePayloads ==
    LET img == Image(CHOOSE r \in Records : r.vtr > 0)
    IN  { Take(img, V1Len), Corrupt(Take(img, V1Len), 1), Take(img, V1Len - 1) }

CoreOutcomes ==
    { o \in ReadOutcomes :
        \/ o.kind = "response" /\ ~o.has_value
        \/ o.kind = "response" /\ o.has_value /\ o.data \in CorePayloads
        \/ o.kind = "raise" /\ o.error.type = "ConnectError"
        \/ o.kind = "raise" /\ o.error = ValueError(<<"Account", "not", "found">>) }

CoreEvents == { ev \in LaunchEvents : ev.mint = "mintA" }

(***************************************************************************)
(* State. The listener of main() delivers launch events to on_new_token;   *)
(* each invocation (a coroutine) owns its locals.                          *)
(***************************************************************************)
Invocations == 1..NumInvocations

VARIABLES
    loop,           \* listener: "listening" or "halted"
    finished,       \* history: how each finished invocation ended
    events,         \* number of launch events delivered so far
    pc,             \* position of each invocation in on_new_token
    token_info,     \* the launch event of the invocation
    pool_address,   \* derived bonding-curve address
    attempt,        \* loop variable of `for attempt in range(max_retries)`
    client_open,    \* number of open AsyncClients (inside `async with`)
    response,       \* result of the last get_account_info
    curve_state,    \* result of the last BondingCurveState(...)
    exc,            \* exception being handled
    result,         \* what the invocation reported at its end
    reads,          \* history: read target of every get_account_info issued
    responses,      \* history: outcome of every get_account_info
    sleeps,         \* history: duration of every asyncio.sleep
    log             \* history: logger calls of the invocation

vars == <<loop, finished, events, pc, token_info, pool_address, attempt, client_open,
          response, curve_state, exc, result, reads, responses, sleeps, log>>

NoCurveState == [error |-> NoError, layout |-> "none", dict |-> EmptyDict]
NoResult ==
    [status |-> "none", initial_price |-> [num |-> 0, den |-> 1], reserves |-> <<0, 0>>,
     error |-> NoError]

Init ==
    /\ loop = "listening"
    /\ finished = <<>>
    /\ events = 0
    /\ pc = [i \in Invocations |-> "idle"]
    /\ token_info = [i \in Invocations |-> NoEvent]
    /\ pool_address = [i \in Invocations |-> "none"]
    /\ attempt = [i \in Invocations |-> 0]
    /\ client_open = [i \in Invocations |-> 0]
    /\ response = [i \in Invocations |-> NoResponse]
    /\ curve_state = [i \in Invocations |-> NoCurveState]
    /\ exc = [i \in Invocations |-> NoError]
    /\ result = [i \in Invocations |-> NoResult]
    /\ reads = [i \in Invocations |-> <<>>]
    /\ responses = [i \in Invocations |-> <<>>]
    /\ sleeps = [i \in Invocations |-> <<>>]
    /\ log = [i \in Invocations |-> <<>>]

Info(kind) == [level |-> "info", kind |-> kind]

(***************************************************************************)
(* main(): listen_for_tokens calls the callback for a new launch event and *)
(* awaits it; on_new_token logs the event (the four logger.info calls      *)
(* before the try).                                                        *)
(***************************************************************************)
Start(i, evs) ==
    /\ loop = "listening"
    /\ events < MaxEvents
    /\ pc[i] = "idle"
    /\ \E ev \in evs :
        /\ token_info' = [token_info EXCEPT ![i] = ev]
        /\ log' = [log EXCEPT ![i] =
                     << Info("detected"), Info("name_symbol"), Info("mint"), Info("creator") >>]
    /\ events' = events + 1
    /\ pc' = [pc EXCEPT ![i] = "derive"]
    /\ UNCHANGED <<loop, finished, pool_address, attempt, client_open, response, curve_state,
                   exc, result, reads, responses, sleeps>>

\* the listener awaits the callback: one invocation at a time
Deliver(i) ==
    /\ \A j \in Invocations : pc[j] = "idle"
    /\ Start(i, LaunchEvents)

\* variant: the read targets the address the event reports
FetchAddress_Reported(ev) == ev.bonding_curve

\* pool_address, the target of every read: derived from the mint
FetchAddress(ev) == derive_pool_address(ev.mint)

(***************************************************************************)
(* create_for_platform, derive_pool_address, the two address log lines,    *)
(* the mismatch warning, and the entry into the retry loop.                *)
(***************************************************************************)
Derive(i) ==
    /\ pc[i] = "derive"
    /\ \E e \in DeriveErrors :
        IF e # NoError
        THEN /\ exc' = [exc EXCEPT ![i] = e]
             /\ pc' = [pc EXCEPT ![i] = "except_Exception"]
             /\ UNCHANGED <<pool_address, log, attempt>>
        ELSE LET addr == FetchAddress(token_info[i])
             IN  /\ pool_address' = [pool_address EXCEPT ![i] = addr]
                 /\ log' = [log EXCEPT ![i] =
                              @ \o << Info("curve_event"), Info("curve_derived") >>
                                \o (IF token_info[i].bonding_curve # addr
                                    THEN << [level |-> "warning", kind |-> "mismatch"] >>
                                    ELSE << >>)]
                 /\ attempt' = [attempt EXCEPT ![i] = 0]
                 /\ pc' = [pc EXCEPT ![i] = "open"]
                 /\ UNCHANGED exc
    /\ UNCHANGED <<loop, finished, events, token_info, client_open, response, curve_state,
                   result, reads, responses, sleeps>>

(***************************************************************************)
(* `async with AsyncClient(rpc_url) as client:` and the call of            *)
(* client.get_account_info(pool_address, ...): the request is in flight.   *)
(***************************************************************************)
OpenAndRequest(i) ==
    /\ pc[i] = "open"
    /\ client_open' = [client_open EXCEPT ![i] = @ + 1]
    /\ reads' = [reads EXCEPT ![i] = Append(@, pool_address[i])]
    /\ pc' = [pc EXCEPT ![i] = "await_read"]
    /\ UNCHANGED <<loop, finished, events, token_info, pool_address, attempt, response,
                   curve_state, exc, result, responses, sleeps, log>>

\* variant: the client is created without `async with` and never closed
ClientsAfterExit_Leak(n) == n

\* leaving the `async with` block closes the client it opened
ClientsAfterExit(n) == n - 1

(***************************************************************************)
(* The awaited get_account_info returns or raises; either way the          *)
(* `async with` block is left and the client is closed. A ValueError is    *)
(* handled by the inner except clause, any other exception by the outer.   *)
(***************************************************************************)
ReadCompletesWith(i, outcomes) ==
    /\ pc[i] = "await_read"
    /\ \E o \in outcomes :
        /\ responses' = [responses EXCEPT ![i] = Append(@, o)]
        /\ IF o.kind = "raise"
           THEN /\ exc' = [exc EXCEPT ![i] = o.error]
                /\ pc' = [pc EXCEPT ![i] =
                            IF o.error.type = "ValueError"
                            THEN "except_ValueError" ELSE "except_Exception"]
                /\ UNCHANGED response
           ELSE /\ response' = [response EXCEPT ![i] = o]
                /\ pc' = [pc EXCEPT ![i] = "process"]
                /\ UNCHANGED exc
    /\ client_open' = [client_open EXCEPT ![i] = ClientsAfterExit(@)]
    /\ UNCHANGED <<loop, finished, events, token_info, pool_address, attempt, curve_state,
                   result, reads, sleeps, log>>

ReadCompletes(i) == ReadCompletesWith(i, ReadOutcomes)


NoDataMsg(addr) == <<"No", "data", "in", "bonding", "curve", "account", addr>>

\* variant: the division is not guarded
InitialPrice_NoGuard(dict) ==
    [num |-> dict["virtual_sol_reserves"].int, den |-> dict["virtual_token_reserves"].int]

\* the price computation of the success path: the price is kept as the
\* exact ratio virtual_sol_reserves / virtual_token_reserves (to be scaled by
\* 10**TOKEN_DECIMALS / LAMPORTS_PER_SOL); 0.0 is the ratio 0 / 1
InitialPrice(dict) ==
    IF dict["virtual_token_reserves"].int > 0
    THEN [num |-> dict["virtual_sol_reserves"].int, den |-> dict["virtual_token_reserves"].int]
    ELSE [num |-> 0, den |-> 1]

(***************************************************************************)
(* The rest of the try body after the read: the no-data check, the decode, *)
(* the price computation, the success log lines and `return`.              *)
(***************************************************************************)
Process(i) ==
    /\ pc[i] = "process"
    /\ IF ~response[i].has_value \/ Len(response[i].data) = 0
       THEN /\ exc' = [exc EXCEPT ![i] = ValueError(NoDataMsg(pool_address[i]))]
            /\ pc' = [pc EXCEPT ![i] = "except_ValueError"]
            /\ UNCHANGED <<curve_state, result, log>>
       ELSE LET cs == BondingCurveState(response[i].data)
            IN  /\ curve_state' = [curve_state EXCEPT ![i] = cs]
                /\ IF cs.error # NoError
                   THEN /\ exc' = [exc EXCEPT ![i] = cs.error]
                        /\ pc' = [pc EXCEPT ![i] =
                                    IF cs.error.type = "ValueError"
                                    THEN "except_ValueError" ELSE "except_Exception"]
                        /\ UNCHANGED <<result, log>>
                   ELSE LET price == InitialPrice(cs.dict)
                            reserves == << cs.dict["virtual_token_reserves"].int,
                                           cs.dict["virtual_sol_reserves"].int >>
                        IN  /\ result' = [result EXCEPT ![i] =
                                            [status |-> "success", initial_price |-> price,
                                             reserves |-> reserves, error |-> NoError]]
                            /\ log' = [log EXCEPT ![i] = @ \o
                                         << Info("success"),
                                            [level |-> "info", kind |-> "price", price |-> price],
                                            [level |-> "info", kind |-> "token_reserves",
                                             value |-> reserves[1]],
                                            [level |-> "info", kind |-> "sol_reserves",
                                             value |-> reserves[2]],
                                            Info("separator") >>]
                            /\ pc' = [pc EXCEPT ![i] = "returned"]
                            /\ UNCHANGED exc
    /\ UNCHANGED <<loop, finished, events, token_info, pool_address, attempt, client_open,
                   response, reads, responses, sleeps>>

\* variant: the warning prints the loop variable itself
RetryWarning_ZeroBased(symbol, att) ==
    [level |-> "warning", kind |-> "retry", symbol |-> symbol,
     attempt |-> att, max |-> max_retries, delay |-> retry_delay]

\* the logger.warning of the retry branch: "... not found on attempt
\* {attempt + 1}/{max_retries}. Retrying in {retry_delay}s..."
RetryWarning(symbol, att) ==
    [level |-> "warning", kind |-> "retry", symbol |-> symbol,
     attempt |-> att + 1, max |-> max_retries, delay |-> retry_delay]

(***************************************************************************)
(* `except ValueError as e:` either warns and starts asyncio.sleep, or     *)
(* re-raises to the outer handler.                                         *)
(***************************************************************************)
ExceptValueError(i) ==
    /\ pc[i] = "except_ValueError"
    /\ IF ShouldRetry(exc[i].msg, attempt[i])
       THEN /\ log' = [log EXCEPT ![i] = Append(@, RetryWarning(token_info[i].symbol, attempt[i]))]
            /\ sleeps' = [sleeps EXCEPT ![i] = Append(@, retry_delay)]
            /\ pc' = [pc EXCEPT ![i] = "sleeping"]
       ELSE /\ pc' = [pc EXCEPT ![i] = "except_Exception"]
            /\ UNCHANGED <<log, sleeps>>
    /\ UNCHANGED <<loop, finished, events, token_info, pool_address, attempt, client_open,
                   response, curve_state, exc, result, reads, responses>>

\* variant: a `while True` loop whose counter is never advanced
Wake_NoIncrement(i) ==
    /\ pc[i] = "sleeping"
    /\ exc' = [exc EXCEPT ![i] = NoError]
    /\ pc' = [pc EXCEPT ![i] = "open"]
    /\ UNCHANGED <<loop, finished, events, token_info, pool_address, attempt, client_open,
                   response, curve_state, result, reads, responses, sleeps, log>>

\* variant: the attempt counter is a module-level variable that all
\* invocations share
Wake_SharedAttempt(i) ==
    /\ pc[i] = "sleeping"
    /\ exc' = [exc EXCEPT ![i] = NoError]
    /\ IF attempt[i] + 1 < max_retries
       THEN /\ attempt' = [j \in Invocations |-> attempt[i] + 1]
            /\ pc' = [pc EXCEPT ![i] = "open"]
       ELSE /\ pc' = [pc EXCEPT ![i] = "returned"]
            /\ UNCHANGED attempt
    /\ UNCHANGED <<loop, finished, events, token_info, pool_address, client_open, response,
                   curve_state, result, reads, responses, sleeps, log>>

(***************************************************************************)
(* asyncio.sleep returns; the for loop takes its next value, or ends, in   *)
(* which case the function returns without a report.                       *)
(***************************************************************************)
Wake(i) ==
    /\ pc[i] = "sleeping"
    /\ exc' = [exc EXCEPT ![i] = NoError]
    /\ IF attempt[i] + 1 < max_retries
       THEN /\ attempt' = [attempt EXCEPT ![i] = @ + 1]
            /\ pc' = [pc EXCEPT ![i] = "open"]
       ELSE /\ pc' = [pc EXCEPT ![i] = "returned"]
            /\ UNCHANGED attempt
    /\ UNCHANGED <<loop, finished, events, token_info, pool_address, client_open, response,
                   curve_state, result, reads, responses, sleeps, log>>

(***************************************************************************)
(* `except Exception as e:` logs the failure and the function returns; an  *)
(* exception the clause does not catch leaves on_new_token.                *)
(***************************************************************************)
ExceptException(i) ==
    /\ pc[i] = "except_Exception"
    /\ IF HandlerCatches(exc[i])
       THEN /\ log' = [log EXCEPT ![i] = Append(@,
                         [level |-> "error", kind |-> "failed", mint |-> token_info[i].mint,
                          error |-> exc[i]])]
            /\ result' = [result EXCEPT ![i] =
                            [status |-> "failed", initial_price |-> [num |-> 0, den |-> 1],
                             reserves |-> <<0, 0>>, error |-> exc[i]]]
            /\ pc' = [pc EXCEPT ![i] = "returned"]
       ELSE /\ pc' = [pc EXCEPT ![i] = "raised"]
            /\ UNCHANGED <<log, result>>
    /\ UNCHANGED <<loop, finished, events, token_info, pool_address, attempt, client_open,
                   response, curve_state, exc, reads, responses, sleeps>>

(***************************************************************************)
(* The coroutine ends and control is back in listen_for_tokens: the locals *)
(* are gone; an exception that left on_new_token ends the listening loop.  *)
(***************************************************************************)
Return(i) ==
    /\ pc[i] \in {"returned", "raised"}
    /\ loop' = IF pc[i] = "raised" THEN "halted" ELSE loop
    /\ finished' = Append(finished, IF pc[i] = "raised" THEN "raised" ELSE result[i].status)
    /\ pc' = [pc EXCEPT ![i] = "idle"]
    /\ token_info' = [token_info EXCEPT ![i] = NoEvent]
    /\ pool_address' = [pool_address EXCEPT ![i] = "none"]
    /\ attempt' = [attempt EXCEPT ![i] = 0]
    /\ response' = [response EXCEPT ![i] = NoResponse]
    /\ curve_state' = [curve_state EXCEPT ![i] = NoCurveState]
    /\ exc' = [exc EXCEPT ![i] = NoError]
    /\ result' = [result EXCEPT ![i] = NoResult]
    /\ reads' = [reads EXCEPT ![i] = <<>>]
    /\ responses' = [responses EXCEPT ![i] = <<>>]
    /\ sleeps' = [sleeps EXCEPT ![i] = <<>>]
    /\ log' = [log EXCEPT ![i] = <<>>]
    /\ UNCHANGED <<events, client_open>>

Next ==
    \E i \in Invocations :
        \/ Deliver(i)
        \/ Derive(i)
        \/ OpenAndRequest(i)
        \/ ReadCompletes(i)
        \/ Process(i)
        \/ ExceptValueError(i)
        \/ Wake(i)
        \/ ExceptException(i)
        \/ Return(i)

Spec == Init /\ [][Next]_vars

(***************************************************************************)
(* Progress of a started invocation: the event loop resumes a coroutine    *)
(* that can run, every awaited get_account_info returns or raises, and     *)
(* every asyncio.sleep ends. Nothing obliges the listener to deliver       *)
(* another event.                                                          *)
(***************************************************************************)
LiveDeliver(i) ==
    /\ \A j \in Invocations : pc[j] = "idle"
    /\ Start(i, CoreEvents)

LiveReadCompletes(i) == ReadCompletesWith(i, CoreOutcomes)

HandlerStep ==
    \E i \in Invocations :
        \/ Derive(i)
        \/ OpenAndRequest(i)
        \/ LiveReadCompletes(i)
        \/ Process(i)
        \/ ExceptValueError(i)
        \/ Wake(i)
        \/ ExceptException(i)
        \/ Return(i)

LiveNext == (\E i \in Invocations : LiveDeliver(i)) \/ HandlerStep

LiveSpec == Init /\ [][LiveNext]_vars /\ WF_vars(HandlerStep)

(***************************************************************************)
(* A listener that fans out: it starts the callback for a new event as a   *)
(* task without awaiting the previous ones, so invocations interleave at   *)
(* their suspension points. The reads end in a retried error, a response   *)
(* without value or a payload that decodes; the events report the curve    *)
(* that is derived from their mint.                                        *)
(***************************************************************************)
FanOutOutcomes ==
    { o \in CoreOutcomes :
        \/ o.kind = "raise" /\ o.error.type = "ValueError"
        \/ o.kind = "response" /\ ~o.has_value
        \/ Len(o.data) = V1Len /\ o.data[1] = BONDING_CURVE_DISCRIMINATOR[1] }

FanOutEvents == { ev \in CoreEvents : ev.bonding_curve = derive_pool_address(ev.mint) }

FanOutDeliver(i) == Start(i, FanOutEvents)

FanOutReadCompletes(i) == ReadCompletesWith(i, FanOutOutcomes)

FanOutNext ==
    \E i \in Invocations :
        \/ FanOutDeliver(i)
        \/ Derive(i)
        \/ OpenAndRequest(i)
        \/ FanOutReadCompletes(i)
        \/ Process(i)
        \/ ExceptValueError(i)
        \/ Wake(i)
        \/ ExceptException(i)
        \/ Return(i)

FanOutSpec == Init /\ [][FanOutNext]_vars


(***************************************************************************)
(* Observations used by the properties.                                    *)
(***************************************************************************)
Last(seq) == seq[Len(seq)]

\* the invocation has ended and has not yet been collected by the listener
Ended(i) == pc[i] \in {"returned", "raised"}

\* the remote read answered that the account does not exist: a response
\* without a value, or the error the handler names "Account not found"
ReportsNotFound(o) ==
    \/ o.kind = "response" /\ ~o.has_value
    \/ o.kind = "raise" /\ o.error.type = "ValueError"
                        /\ Contains(o.error.msg, AccountNotFoundPattern)

\* the response carries no value or no data payload
NoValueOrData(o) == o.kind = "response" /\ (~o.has_value \/ Len(o.data) = 0)

\* an error whose message is one of the two not-yet-available patterns
MatchesRetryPattern(e) ==
    Contains(e.msg, AccountNotFoundPattern) \/ Contains(e.msg, InvalidStatePattern)

\* the attempt finds the account not yet available
NotYetAvailable(o) ==
    \/ NoValueOrData(o)
    \/ o.kind = "raise" /\ o.error.type = "ValueError" /\ MatchesRetryPattern(o.error)

HasPayload(o) == o.kind = "response" /\ o.has_value /\ Len(o.data) > 0

ValidDiscriminator(data) ==
    /\ Len(data) >= DiscriminatorLen
    /\ \A k \in 1..DiscriminatorLen : data[k] = BONDING_CURVE_DISCRIMINATOR[k]

\* bytes needed after the discriminator by the layout the length selects
BodyNeeded(data) == IF Len(data) > LayoutThreshold THEN V2Len ELSE V1Len

StructurallyValid(o) ==
    HasPayload(o) /\ ValidDiscriminator(o.data) /\ Len(o.data) >= BodyNeeded(o.data)

\* the error the attempt with outcome o ends in, as the handler raises it
AttemptError(o, addr) ==
    IF o.kind = "raise" THEN o.error
    ELSE IF NoValueOrData(o) THEN ValueError(NoDataMsg(addr))
    ELSE IF ~ValidDiscriminator(o.data) THEN ValueError(InvalidDiscriminatorMsg)
    ELSE IF Len(o.data) < BodyNeeded(o.data) THEN StreamError
    ELSE NoError

AllDelays(n) == [k \in 1..n |-> retry_delay]

\* C1 (as claimed): when every read reports the account as not found, the
\* invocation ends after exactly 5 reads and 4 delays of 1.5 s, reporting
\* failure.
C1_RetryBoundNotFound ==
    \A i \in Invocations :
        ( /\ Ended(i)
          /\ Len(responses[i]) >= 1
          /\ \A k \in 1..Len(responses[i]) : ReportsNotFound(responses[i][k]) )
        => /\ Len(reads[i]) = max_retries
           /\ sleeps[i] = AllDelays(max_retries - 1)
           /\ result[i].status = "failed"

\* C2 (as claimed): an attempt whose response has no value or no data is
\* retried while fewer than 5 attempts were made; so an invocation that ends
\* on such a response has made all 5 attempts.
C2_NoDataIsRetried ==
    \A i \in Invocations :
        ( /\ Ended(i)
          /\ Len(responses[i]) >= 1
          /\ NoValueOrData(Last(responses[i])) )
        => Len(reads[i]) = max_retries

\* C3 (as claimed): a read that is not yet available twice and then returns
\* a structurally valid payload gives exactly 3 attempts, 2 delays and the
\* result decoded from the third response.
C3_EarlySuccess ==
    \A i \in Invocations :
        ( /\ Ended(i)
          /\ Len(responses[i]) >= 1
          /\ \A k \in 1..Min(2, Len(responses[i])) : NotYetAvailable(responses[i][k])
          /\ Len(responses[i]) >= 3 => StructurallyValid(responses[i][3]) )
        => /\ Len(reads[i]) = 3
           /\ Len(responses[i]) = 3
           /\ Len(sleeps[i]) = 2
           /\ result[i].status = "success"
           /\ result[i].reserves =
                << Int64ul(SubSeq(responses[i][3].data, 9, 16)),
                   Int64ul(SubSeq(responses[i][3].data, 17, 24)) >>

\* C4: a non-retryable error on the first attempt (raised by the read or by
\* the decode, message matching neither not-yet-available pattern) ends the
\* invocation after 1 attempt, without delay, reporting that error.
C4_FatalShortCircuit ==
    \A i \in Invocations :
        ( /\ Len(responses[i]) >= 1
          /\ pc[i] \notin {"process"}
          /\ ~NoValueOrData(responses[i][1])
          /\ AttemptError(responses[i][1], pool_address[i]) # NoError
          /\ ~MatchesRetryPattern(AttemptError(responses[i][1], pool_address[i])) )
        => /\ Len(reads[i]) = 1
           /\ Len(responses[i]) = 1
           /\ sleeps[i] = <<>>
           /\ pc[i] \in {"except_ValueError", "except_Exception", "returned"}
           /\ exc[i] = AttemptError(responses[i][1], pool_address[i])
           /\ pc[i] = "returned" =>
                /\ result[i].status = "failed"
                /\ result[i].error = AttemptError(responses[i][1], pool_address[i])

C4_Witness ==
    \E i \in Invocations :
        /\ pc[i] = "returned"
        /\ Len(responses[i]) = 1
        /\ responses[i][1].kind = "raise"
        /\ responses[i][1].error.type = "ConnectError"
        /\ result[i].status = "failed"
        /\ sleeps[i] = <<>>

\* C5: when the 5th attempt ends in a not-yet-available error, no delay and
\* no read follows, and the invocation ends reporting that error.
C5_Exhausted ==
    \A i \in Invocations :
        ( /\ Len(responses[i]) = max_retries
          /\ NotYetAvailable(responses[i][max_retries])
          /\ pc[i] # "process" )
        => /\ Len(reads[i]) = max_retries
           /\ sleeps[i] = AllDelays(max_retries - 1)
           /\ pc[i] \in {"except_ValueError", "except_Exception", "returned"}
           /\ exc[i] = AttemptError(responses[i][max_retries], pool_address[i])
           /\ pc[i] = "returned" =>
                /\ result[i].status = "failed"
                /\ result[i].error = AttemptError(responses[i][max_retries], pool_address[i])
                /\ Last(log[i]).kind = "failed"

C5_Witness ==
    \E i \in Invocations :
        /\ pc[i] = "returned"
        /\ Len(responses[i]) = max_retries
        /\ responses[i][max_retries].kind = "raise"
        /\ MatchesRetryPattern(responses[i][max_retries].error)
        /\ result[i].status = "failed"
        /\ Len(sleeps[i]) = max_retries - 1


\* C6: whatever the event and whatever address derivation, read and decode
\* do, no exception leaves on_new_token: an exception that reaches the
\* handler's boundary is logged as the failure, the invocation returns
\* normally, the listener keeps listening and can deliver the next event.
C6_HandlerBoundary ==
    /\ loop = "listening"
    /\ \A k \in 1..Len(finished) : finished[k] # "raised"
    /\ \A i \in Invocations :
        /\ pc[i] # "raised"
        /\ (pc[i] = "returned" /\ exc[i] # NoError) =>
              /\ result[i].status = "failed"
              /\ Last(log[i]).level = "error"
              /\ Last(log[i]).kind = "failed"
              /\ Last(log[i]).error = exc[i]
    /\ ((\A i \in Invocations : pc[i] = "idle") /\ events < MaxEvents)
          => ENABLED (\E i \in Invocations : Deliver(i))

C6_Witness ==
    /\ Len(finished) >= 1
    /\ finished[1] = "failed"
    /\ \E i \in Invocations : pc[i] = "derive"

\* C7: once a fetched payload has a wrong discriminator, that attempt is the
\* last: no delay and no read follows it, and the invocation ends in failure
\* with the invalid-discriminator error.
C7_InvalidDiscriminatorFatal ==
    \A i \in Invocations :
        ( /\ Len(responses[i]) >= 1
          /\ HasPayload(Last(responses[i]))
          /\ ~ValidDiscriminator(Last(responses[i]).data) )
        => /\ pc[i] \in {"process", "except_ValueError", "except_Exception", "returned"}
           /\ Len(reads[i]) = Len(responses[i])
           /\ Len(sleeps[i]) = Len(responses[i]) - 1
           /\ pc[i] = "returned" =>
                /\ result[i].status = "failed"
                /\ result[i].error.type = "ValueError"
                /\ result[i].error.msg[Len(result[i].error.msg)] = "discriminator"

C7_Witness ==
    \E i \in Invocations :
        /\ pc[i] = "returned"
        /\ Len(responses[i]) = 2
        /\ HasPayload(responses[i][2])
        /\ ~ValidDiscriminator(responses[i][2].data)
        /\ result[i].status = "failed"
        /\ Len(sleeps[i]) = 1

\* C8: decoding a payload whose first 8 bytes are not the discriminator
\* (payloads shorter than 8 bytes included) raises the invalid-discriminator
\* ValueError with no layout selected and no attribute set.
C8_InvalidDiscriminatorDecode ==
    \A i \in Invocations :
        ( /\ Len(responses[i]) >= 1
          /\ HasPayload(Last(responses[i]))
          /\ ~ValidDiscriminator(Last(responses[i]).data)
          /\ pc[i] # "process" )
        => /\ curve_state[i].error.type = "ValueError"
           /\ curve_state[i].error.msg = <<"Invalid", "curve", "state", "discriminator">>
           /\ curve_state[i].layout = "none"
           /\ DOMAIN curve_state[i].dict = {}

C8_Witness ==
    \E i \in Invocations :
        /\ pc[i] = "returned"
        /\ Len(responses[i]) >= 1
        /\ HasPayload(Last(responses[i]))
        /\ Len(Last(responses[i]).data) = DiscriminatorLen - 1
        /\ curve_state[i].error.type = "ValueError"
        /\ curve_state[i].layout = "none"

\* C9: for a payload with a valid discriminator the decoder selects V2
\* exactly when the whole payload is longer than 150 bytes; otherwise it
\* selects V1 and the object gets no creator attribute.
C9_LayoutSelection ==
    \A i \in Invocations :
        ( /\ Len(responses[i]) >= 1
          /\ HasPayload(Last(responses[i]))
          /\ ValidDiscriminator(Last(responses[i]).data)
          /\ pc[i] # "process" )
        => LET n == Len(Last(responses[i]).data)
           IN  /\ curve_state[i].layout = "V2" <=> n > 150
               /\ n <= 150 =>
                    /\ curve_state[i].layout = "V1"
                    /\ "creator" \notin DOMAIN curve_state[i].dict
               /\ n > 150 => "creator" \in DOMAIN curve_state[i].dict

C9_Witness ==
    \E i \in Invocations :
        /\ pc[i] = "returned"
        /\ Len(responses[i]) >= 1
        /\ HasPayload(Last(responses[i]))
        /\ ValidDiscriminator(Last(responses[i]).data)
        /\ Len(Last(responses[i]).data) = 150
        /\ curve_state[i].layout = "V1"
        /\ result[i].status = "success"

\* C10 (as claimed): every payload of at least 150 bytes with a valid
\* discriminator is decoded with layout V2 and gets a creator identity made
\* of the 32 bytes of the creator field.
C10_V2AtOrAbove150 ==
    \A i \in Invocations :
        ( /\ Len(responses[i]) >= 1
          /\ HasPayload(Last(responses[i]))
          /\ ValidDiscriminator(Last(responses[i]).data)
          /\ Len(Last(responses[i]).data) >= 150
          /\ pc[i] # "process" )
        => /\ curve_state[i].layout = "V2"
           /\ "creator" \in DOMAIN curve_state[i].dict
           /\ curve_state[i].dict["creator"] =
                [pubkey |-> SubSeq(Last(responses[i]).data, V1Len + 1, V2Len)]

\* C10 (amended): every payload longer than 150 bytes with a valid
\* discriminator is decoded without error with layout V2, and its creator is
\* the identity made of the 32 bytes that follow the six fixed fields.
C10_V2Above150 ==
    \A i \in Invocations :
        ( /\ Len(responses[i]) >= 1
          /\ HasPayload(Last(responses[i]))
          /\ ValidDiscriminator(Last(responses[i]).data)
          /\ Len(Last(responses[i]).data) > 150
          /\ pc[i] # "process" )
        => /\ curve_state[i].error = NoError
           /\ curve_state[i].layout = "V2"
           /\ "creator" \in DOMAIN curve_state[i].dict
           /\ curve_state[i].dict["creator"] =
                [pubkey |-> SubSeq(Last(responses[i]).data, V1Len + 1, V2Len)]
           /\ pc[i] = "returned" => result[i].status = "success"

C10_Witness ==
    \E i \in Invocations :
        /\ pc[i] = "returned"
        /\ Len(responses[i]) >= 1
        /\ HasPayload(Last(responses[i]))
        /\ Len(Last(responses[i]).data) = 151
        /\ curve_state[i].layout = "V2"
        /\ curve_state[i].dict["creator"] = [pubkey |-> CreatorBytes]


\* a payload with a valid discriminator and fewer bytes after it than the
\* selected layout reads
Truncated(o) ==
    HasPayload(o) /\ ValidDiscriminator(o.data) /\ Len(o.data) < BodyNeeded(o.data)

\* C11: decoding a truncated payload raises and sets no attribute (there is
\* no partly filled record), and the handler does not retry it: that attempt
\* is the last, no delay follows, and the invocation ends in failure.
C11_TruncatedPayload ==
    \A i \in Invocations :
        ( /\ Len(responses[i]) >= 1
          /\ Truncated(Last(responses[i]))
          /\ pc[i] # "process" )
        => /\ curve_state[i].error.type = "StreamError"
           /\ DOMAIN curve_state[i].dict = {}
           /\ result[i].status # "success"
           /\ pc[i] \in {"except_Exception", "returned"}
           /\ Len(reads[i]) = Len(responses[i])
           /\ Len(sleeps[i]) = Len(responses[i]) - 1
           /\ pc[i] = "returned" =>
                /\ result[i].status = "failed"
                /\ result[i].error.type = "StreamError"

C11_Witness ==
    \E i \in Invocations :
        /\ pc[i] = "returned"
        /\ Len(responses[i]) = 2
        /\ Truncated(responses[i][2])
        /\ Len(responses[i][2].data) = V1Len - 1
        /\ result[i].status = "failed"
        /\ Len(sleeps[i]) = 1


MismatchWarnings(i) ==
    { k \in 1..Len(log[i]) : log[i][k].level = "warning" /\ log[i][k].kind = "mismatch" }

\* the derived address is known: derivation returned and the loop was entered
Derived(i) == pool_address[i] # "none"

\* C12: every read targets derive_pool_address(mint); when the address the
\* event reports differs from it, one mismatch warning is logged (none when
\* they agree) and the reads still go to the derived address.
C12_AddressReconciliation ==
    \A i \in Invocations :
        /\ \A k \in 1..Len(reads[i]) :
              reads[i][k] = (IF token_info[i].mint = "mintA" THEN "curveA" ELSE "curveB")
        /\ Derived(i) =>
              /\ pool_address[i] = (IF token_info[i].mint = "mintA" THEN "curveA" ELSE "curveB")
              /\ token_info[i].bonding_curve # pool_address[i]
                    => Cardinality(MismatchWarnings(i)) = 1
              /\ token_info[i].bonding_curve = pool_address[i]
                    => MismatchWarnings(i) = {}
        /\ ~Derived(i) => (reads[i] = <<>> /\ MismatchWarnings(i) = {})

C12_Witness ==
    \E i \in Invocations :
        /\ pc[i] = "returned"
        /\ token_info[i].mint = "mintB"
        /\ token_info[i].bonding_curve = "curveA"
        /\ Len(reads[i]) = 2
        /\ reads[i][1] = "curveB" /\ reads[i][2] = "curveB"
        /\ MismatchWarnings(i) # {}
        /\ result[i].status = "success"

\* the decoded virtual_token_reserves of a structurally valid payload
PayloadVtr(data) == Int64ul(SubSeq(data, DiscriminatorLen + 1, DiscriminatorLen + 8))

\* C13: when the decoded record has virtual_token_reserves = 0 the attempt
\* succeeds with initial_price 0.0 (no division by the reserves), whatever
\* the other fields; no error is raised and no retry follows.
C13_ZeroReserve ==
    \A i \in Invocations :
        ( /\ Len(responses[i]) >= 1
          /\ StructurallyValid(Last(responses[i]))
          /\ PayloadVtr(Last(responses[i]).data) = 0
          /\ pc[i] # "process" )
        => /\ pc[i] = "returned"
           /\ exc[i] = NoError
           /\ result[i].status = "success"
           /\ result[i].initial_price.num = 0
           /\ result[i].initial_price.den # 0
           /\ result[i].reserves[1] = 0
           /\ Len(reads[i]) = Len(responses[i])
           /\ Len(sleeps[i]) = Len(responses[i]) - 1

C13_Witness ==
    \E i \in Invocations :
        /\ pc[i] = "returned"
        /\ Len(responses[i]) >= 1
        /\ StructurallyValid(Last(responses[i]))
        /\ PayloadVtr(Last(responses[i]).data) = 0
        /\ result[i].status = "success"
        /\ result[i].initial_price = [num |-> 0, den |-> 1]
        /\ result[i].reserves[2] > 0


\* log entries that carry an attempt index and the maximum
IsRetryEntry(e) == e.kind = "retry"
RetryEntries(i) == SelectSeq(log[i], IsRetryEntry)

\* attempt k of invocation i has been classified (its outcome was handled)
Classified(i, k) ==
    /\ k \in 1..Len(responses[i])
    /\ k < Len(responses[i]) \/ pc[i] \in {"sleeping", "open", "await_read", "returned"}

\* C14 (as claimed): every read attempt, whatever its classification, has a
\* log entry with its attempt index and the maximum number of attempts.
C14_EveryAttemptLogged ==
    \A i \in Invocations :
        \A k \in 1..Len(responses[i]) :
            Classified(i, k) =>
                \E n \in 1..Len(log[i]) :
                    /\ IsRetryEntry(log[i][n])
                    /\ log[i][n].attempt = k
                    /\ log[i][n].max = 5

\* C14 (amended): exactly the attempts that are followed by a delay are
\* logged with their 1-based index and the maximum 5, in order; the attempt
\* that ends the invocation is reported without an attempt index.
C14_RetriedAttemptsLogged ==
    \A i \in Invocations :
        /\ Len(RetryEntries(i)) = Len(sleeps[i])
        /\ \A k \in 1..Len(RetryEntries(i)) :
              /\ RetryEntries(i)[k].level = "warning"
              /\ RetryEntries(i)[k].attempt = k
              /\ RetryEntries(i)[k].max = 5
        /\ (pc[i] = "returned" /\ Len(responses[i]) >= 1)
              => Len(RetryEntries(i)) = Len(responses[i]) - 1

C14_Witness ==
    \E i \in Invocations :
        /\ pc[i] = "returned"
        /\ Len(responses[i]) = 3
        /\ Len(RetryEntries(i)) = 2
        /\ RetryEntries(i)[2].attempt = 2
        /\ result[i].status = "success"


\* reads issued and not yet answered
InFlight(i) == Len(reads[i]) - Len(responses[i])

\* C15: an invocation has at most one read in flight and at most one open
\* client; the client is open exactly while the read of the current attempt
\* is awaited, so it is closed during decode, delay and before the next
\* attempt, and the attempts follow one another (read k belongs to loop
\* value k - 1).
C15_OneReadOneClient ==
    \A i \in Invocations :
        /\ client_open[i] \in {0, 1}
        /\ InFlight(i) \in {0, 1}
        /\ client_open[i] = 1 <=> pc[i] = "await_read"
        /\ InFlight(i) = 1 <=> pc[i] = "await_read"
        /\ pc[i] \in {"await_read", "process", "except_ValueError", "sleeping"}
              => Len(reads[i]) = attempt[i] + 1
        /\ pc[i] = "open" => Len(reads[i]) = attempt[i]

C15_Witness ==
    \E i \in Invocations :
        /\ pc[i] = "sleeping"
        /\ Len(reads[i]) = 2
        /\ client_open[i] = 0
        /\ InFlight(i) = 0


\* C16: every started invocation reaches a terminal report (success, or
\* failure by exhaustion or by a fatal error) and then returns to the
\* listener, whatever the reads answer.
C16_Termination ==
    \A i \in Invocations :
        /\ (pc[i] = "derive") ~>
              (pc[i] = "returned" /\ result[i].status \in {"success", "failed"})
        /\ (pc[i] = "returned") ~> (pc[i] = "idle")

C16_Witness ==
    \E i \in Invocations :
        /\ Len(finished) >= 1
        /\ pc[i] = "returned"
        /\ Len(reads[i]) = max_retries
        /\ Len(sleeps[i]) = max_retries - 1
        /\ result[i].status = "failed"


\* the locals of invocation i
Locals(i) ==
    << pc[i], token_info[i], pool_address[i], attempt[i], client_open[i], response[i],
       curve_state[i], exc[i], result[i], reads[i], responses[i], sleeps[i], log[i] >>

\* what invocation i has observably done
Conduct(i) == << attempt[i], reads[i], sleeps[i], result[i], log[i] >>

\* two invocations at the same position with the same event and the same
\* read results so far
SameInputs(i, j) ==
    /\ pc[i] = pc[j]
    /\ pc[i] # "idle"
    /\ token_info[i] = token_info[j]
    /\ responses[i] = responses[j]
    /\ exc[i] = exc[j]

\* C17: with interleaved invocations, a step changes the locals of one
\* invocation only, the attempt counter of an invocation counts its own
\* delays, and attempts, target address and outcome are a function of the
\* invocation's own event and read results.
C17_Isolation ==
    /\ [][ \A i, j \in Invocations :
             (i # j /\ Locals(i)' # Locals(i)) => Locals(j)' = Locals(j) ]_vars
    /\ [] ( \A i \in Invocations :
              pc[i] \in {"open", "await_read", "process", "except_ValueError"}
                 => attempt[i] = Len(sleeps[i]) )
    /\ [] ( \A i, j \in Invocations : SameInputs(i, j) => Conduct(i) = Conduct(j) )

C17_Witness ==
    \E i, j \in Invocations :
        /\ i # j
        /\ pc[i] = "sleeping" /\ attempt[i] = 2
        /\ pc[j] = "returned" /\ Len(reads[j]) = 1
        /\ token_info[i] = token_info[j]


\* C18: in every state of an invocation there are at most 5 reads and at
\* most 4 delays; while an attempt is in progress or has ended the
\* invocation the delays number one less than the attempts started; a delay
\* is begun only after an attempt and is always followed by another one, so
\* none comes before the first attempt or after the last.
C18_RetryCounts ==
    \A i \in Invocations :
        /\ Len(reads[i]) <= 5
        /\ Len(sleeps[i]) <= 4
        /\ Len(reads[i]) = 0 => Len(sleeps[i]) = 0
        /\ (Len(reads[i]) >= 1 /\ pc[i] \notin {"sleeping", "open"})
              => Len(sleeps[i]) = Len(reads[i]) - 1
        /\ pc[i] \in {"sleeping", "open"}
              => Len(sleeps[i]) = Len(reads[i]) /\ Len(reads[i]) <= 4

C18_Witness ==
    \E i \in Invocations :
        pc[i] = "returned" /\ Len(reads[i]) = 5 /\ Len(sleeps[i]) = 4

IsSuccessReport(e) == e.kind = "success"
IsFailureReport(e) == e.kind = "failed"
SuccessReports(i) == Len(SelectSeq(log[i], IsSuccessReport))
FailureReports(i) == Len(SelectSeq(log[i], IsFailureReport))

\* C19: an invocation that has ended has logged exactly one terminal report,
\* success or failure, and one that has not ended has logged none; the
\* success report belongs to the last read, whose payload has a valid
\* discriminator and was decoded without error, and after it the invocation
\* does nothing more until the listener collects it.
C19_OneTerminalReport ==
    /\ [] ( \A i \in Invocations :
              /\ Ended(i) => SuccessReports(i) + FailureReports(i) = 1
              /\ ~Ended(i) => SuccessReports(i) + FailureReports(i) = 0
              /\ SuccessReports(i) = 1 =>
                    /\ result[i].status = "success"
                    /\ Len(responses[i]) = Len(reads[i])
                    /\ Len(responses[i]) >= 1
                    /\ StructurallyValid(Last(responses[i]))
                    /\ curve_state[i] = BondingCurveState(Last(responses[i]).data)
                    /\ curve_state[i].error = NoError
              /\ FailureReports(i) = 1 => result[i].status = "failed" )
    /\ [][ \A i \in Invocations :
             SuccessReports(i) = 1 => (pc'[i] = "idle" \/ Locals(i)' = Locals(i)) ]_vars

C19_Witness ==
    \E i, j \in Invocations :
        /\ pc[i] = "returned" /\ SuccessReports(i) = 1 /\ Len(sleeps[i]) = 1
        /\ j # i /\ pc[j] = "idle"
        /\ Len(finished) = 1 /\ finished[1] = "failed"

=============================================================================
